---- MODULE Spec2Model ----
(***************************************************************************)
(* A model of trenza's join: src/src/merge.rs (merge_repositories,         *)
(* find_repos, create_joined_repo, merge_repos, move_repo_contents,        *)
(* prepare_manifest_branch, prepare_requested_branch) and                  *)
(* src/src/lib.rs (ToAnyhow::to_anyhow).                                   *)
(*                                                                         *)
(* Paths are sequences of components; a component is a string.  The scan   *)
(* root is the empty path, so a repository's path relative to the root is  *)
(* its alias (repo_name).  Text that the code inspects character by        *)
(* character (the output of `git branch -r`) is a sequence of one          *)
(* character strings.  git and the file system are the environment: every  *)
(* command may fail, and a command that git is bound to refuse does fail.  *)
(***************************************************************************)
EXTENDS Integers, Sequences, FiniteSets, TLC

VARIABLES
    tree,             \* the paths that exist below merge_root (scan input)
    unreadable,       \* the directories of tree that cannot be listed
    branch,           \* the `branch` argument: "None" or the branch name
    targetExists,     \* whether target_path exists before the run
    pc,               \* position of the run inside merge_repositories
    repos,            \* the Vec<PathBuf> returned by find_repos
    idx,              \* index in repos of the repository of the loop body
    exclude,          \* the HashSet `exclude` of merge_repos
    prepare_branch,   \* which closure merge_repos boxed
    merge_branch,     \* the ref returned by prepare_branch for repos[idx]
    files,            \* tracked files of the joined repository's work tree
    dirs,             \* empty directories of the joined work tree
    top_level_files,  \* the sources of the last `git mv ... tmp/`
    content,          \* per merged repository, the tree its merge brought in
    log,              \* the operations issued since the last repository was
                      \* completed, each with its outcome
    merged,           \* the repositories reported by info!("Merged repository")
    error,            \* what a run that does not succeed ends with: the
                      \* context chain of the Err that main returns, the
                      \* outermost context first, or the panic
    commits,          \* the number of commits move_repo_contents has added
                      \* to the history of the joined repository
    listing,          \* input of the manifest resolution under SpecManifest
    resolved          \* its result

vars == <<tree, unreadable, branch, targetExists, pc, repos, idx, exclude, prepare_branch,
          merge_branch, files, dirs, top_level_files, content, log, merged,
          error, commits, listing, resolved>>

runVars == <<tree, unreadable, branch, targetExists, pc, repos, idx, exclude,
             prepare_branch, merge_branch, files, dirs, top_level_files,
             content, log, merged, error, commits>>

(***************************************************************************)
(* Bounds and program constants.                                           *)
(***************************************************************************)
\* the largest number of version-control markers below the root
MaxRepos == 2
\* the largest number of pieces a `git branch -r` output is built from
MaxPieces == 5

MARKER == ".git"
TMP_TARGET_PATH == "z_tmp_unique_target_directory_@@@"
TMP_JOIN_BRANCH ==
    <<"t", "m", "p", "_", "j", "o", "i", "n", "_", "b", "r", "a", "n", "c", "h">>

(***************************************************************************)
(* Strings as byte sequences, for the comparisons the code makes.          *)
(***************************************************************************)
Bytes ==
    (".git" :> <<46, 103, 105, 116>>) @@ ("a" :> <<97>>) @@
    ("a-b" :> <<97, 45, 98>>) @@ ("b" :> <<98>>) @@ ("f" :> <<102>>) @@
    ("g" :> <<103>>)

SEPARATOR == 47

RECURSIVE BytesLess(_, _)
\* Ord of byte strings: lexicographic, a proper prefix is smaller
BytesLess(s, t) ==
    IF t = <<>> THEN FALSE
    ELSE IF s = <<>> THEN TRUE
    ELSE IF Head(s) # Head(t) THEN Head(s) < Head(t)
    ELSE BytesLess(Tail(s), Tail(t))

RECURSIVE PathLess(_, _)
\* Ord of std::path::Path: component by component
PathLess(p, q) ==
    IF q = <<>> THEN FALSE
    ELSE IF p = <<>> THEN TRUE
    ELSE IF Head(p) # Head(q) THEN BytesLess(Bytes[Head(p)], Bytes[Head(q)])
    ELSE PathLess(Tail(p), Tail(q))

RECURSIVE PathString(_)
\* the path as one string, components joined by the separator
PathString(p) ==
    IF p = <<>> THEN <<>>
    ELSE IF Len(p) = 1 THEN Bytes[p[1]]
    ELSE Bytes[p[1]] \o <<SEPARATOR>> \o PathString(Tail(p))

IsPrefix(p, q) == Len(p) <= Len(q) /\ SubSeq(q, 1, Len(p)) = p
IsProperPrefix(p, q) == Len(p) < Len(q) /\ SubSeq(q, 1, Len(p)) = p
Parent(p) == SubSeq(p, 1, Len(p) - 1)
Last(p) == p[Len(p)]

RECURSIVE SetToSeq(_)
\* some enumeration of a finite set
SetToSeq(S) ==
    IF S = {} THEN <<>>
    ELSE LET x == CHOOSE y \in S : TRUE IN <<x>> \o SetToSeq(S \ {x})

RECURSIVE InsertPath(_, _)
InsertPath(x, s) ==
    IF s = <<>> THEN <<x>>
    ELSE IF PathLess(x, Head(s)) THEN <<x>> \o s
    ELSE <<Head(s)>> \o InsertPath(x, Tail(s))

RECURSIVE SortPaths(_)
\* slice::sort of paths under Path's Ord; equal elements are all kept
SortPaths(s) ==
    IF s = <<>> THEN <<>>
    ELSE InsertPath(Head(s), SortPaths(Tail(s)))

StringLess(p, q) == BytesLess(PathString(p), PathString(q))

RECURSIVE InsertByString(_, _)
InsertByString(x, s) ==
    IF s = <<>> THEN <<x>>
    ELSE IF StringLess(x, Head(s)) THEN <<x>> \o s
    ELSE <<Head(s)>> \o InsertByString(x, Tail(s))

RECURSIVE SortByString(_)
\* a sort under the order of the paths' strings
SortByString(s) ==
    IF s = <<>> THEN <<>>
    ELSE InsertByString(Head(s), SortByString(Tail(s)))

Range(s) == {s[k] : k \in 1..Len(s)}

(***************************************************************************)
(* find_repos                                                              *)
(***************************************************************************)
\* the paths the walk of glob gets to: a directory that cannot be listed
\* is seen, the entries below it are not
Visible(t, u) == {p \in t : ~\E d \in u : IsProperPrefix(d, p)}

\* glob("{root}/**/.git"): Ok(path) for every path the walk gets to whose
\* last component is the marker, Err for every directory it gets to and
\* cannot list; each yielded once, in the order of the walk
GlobResults(t, u) ==
    SetToSeq({[ok |-> TRUE, path |-> p] :
                 p \in {q \in Visible(t, u) : q # <<>> /\ Last(q) = MARKER}}
             \cup {[ok |-> FALSE, path |-> d] : d \in u \cap Visible(t, u)})

\* filter_map(|res| res.ok()...): the Err results are left out
Oks(results) == SelectSeq(results, LAMBDA r : r.ok)

\* a sort by the path string instead of Path's Ord
find_repos_by_string(t, u) ==
    LET paths == Oks(GlobResults(t, u))
    IN  SortByString([k \in 1..Len(paths) |-> Parent(paths[k].path)])

\* the matched marker paths returned without taking their parent
find_repos_no_parent(t, u) ==
    LET paths == Oks(GlobResults(t, u))
    IN  SortPaths([k \in 1..Len(paths) |-> paths[k].path])

find_repos(t, u) ==
    LET paths == Oks(GlobResults(t, u))
    IN  SortPaths([k \in 1..Len(paths) |-> Parent(paths[k].path)])

(***************************************************************************)
(* ToAnyhow::to_anyhow: a command's outcome is "ok" (executed, exit status *)
(* zero), "nonzero" (executed, other exit status) or "noexec" (the process *)
(* could not be executed).                                                 *)
(***************************************************************************)
Outcomes == {"ok", "nonzero", "noexec"}

\* an outcome taken for a success whenever the process could be executed
to_anyhow_ignoring_status(out) == out # "noexec"

\* Ok(output) exactly for an executed command with a successful status
to_anyhow(out) == out = "ok"

\* ---------------------------------------------------------------------
\* prepare_manifest_branch, the part that reads the output of
\* `git branch -r`.  MANIFEST_BRANCH_PATTERN is  m\/\S* -> (\S*)
\* ---------------------------------------------------------------------
IsSpace(c) == c \in {" ", "\n", "\t"}

\* the first position from i on that holds no \S character
RunEnd(s, i) ==
    LET stops == {j \in i..Len(s) : IsSpace(s[j])}
    IN  IF stops = {} THEN Len(s) + 1
        ELSE CHOOSE j \in stops : \A k \in stops : j <= k

HasAt(s, i, lit) ==
    i + Len(lit) - 1 <= Len(s) /\ SubSeq(s, i, i + Len(lit) - 1) = lit

\* the pattern matches with its first character at position i
MatchAt(s, i) ==
    /\ HasAt(s, i, <<"m", "/">>)
    /\ HasAt(s, RunEnd(s, i + 2), <<" ", "-", ">", " ">>)

\* Regex::captures: the leftmost match, group 1
Captures(s) ==
    LET starts == {i \in 1..Len(s) : MatchAt(s, i)}
    IN  IF starts = {} THEN [found |-> FALSE, group |-> <<>>]
        ELSE LET i == CHOOSE j \in starts : \A k \in starts : j <= k
                 c == RunEnd(s, i + 2) + 4
             IN  [found |-> TRUE, group |-> SubSeq(s, c, RunEnd(s, c) - 1)]

Contains(s, c) == \E k \in 1..Len(s) : s[k] = c

\* the piece before the first separator
SplitFirst(s) ==
    LET k == CHOOSE j \in 1..Len(s) : s[j] = "/" /\ \A h \in 1..(j - 1) : s[h] # "/"
    IN  IF Contains(s, "/") THEN SubSeq(s, 1, k - 1) ELSE s

RECURSIVE SplitLast(_)
\* split('/').last(): the piece after the last separator
SplitLast(s) ==
    IF ~Contains(s, "/") THEN s
    ELSE LET k == CHOOSE j \in 1..Len(s) : s[j] = "/" /\ \A h \in 1..(j - 1) : s[h] # "/"
         IN  SplitLast(SubSeq(s, k + 1, Len(s)))

\* no pointer in the listing taken for a pointer to the temporary branch
ManifestDecisionDefaulting(remote_branches) ==
    [kind |-> "tag", ref |-> TMP_JOIN_BRANCH,
     checkout |-> <<"checkout", "-b", TMP_JOIN_BRANCH, <<>>>>]

\* what prepare_manifest_branch decides from the remote branches: the ref
\* to return and the checkout to issue
ManifestDecision(remote_branches) ==
    LET caps == Captures(remote_branches)
    IN  IF ~caps.found
        THEN [kind |-> "none", ref |-> <<>>, checkout |-> <<>>]
        ELSE IF Contains(caps.group, "/")
        THEN [kind |-> "branch", ref |-> SplitLast(caps.group),
              checkout |-> <<"checkout", SplitLast(caps.group)>>]
        ELSE [kind |-> "tag", ref |-> TMP_JOIN_BRANCH,
              checkout |-> <<"checkout", "-b", TMP_JOIN_BRANCH, caps.group>>]

(***************************************************************************)
(* The run: merge_repositories.                                            *)
(***************************************************************************)
\* the marker paths a scanned tree is drawn from
RunMarkers ==
    { <<MARKER>>, <<"a", MARKER>>, <<"a", "b", MARKER>>, <<"a-b", MARKER>>,
      <<"b", MARKER>>, <<"g", "a", MARKER>>, <<"g", "b", MARKER>> }

\* the directories of a scanned tree that may refuse to be listed
RunUnreadable == { <<"g">> }

\* the paths of a repository's tree: a file f, a directory a holding a
\* file b, a directory b holding a file f
ContentPaths == { <<"f">>, <<"a", "b">>, <<"b", "f">> }
Contents == (SUBSET ContentPaths) \ {{}}

\* outputs of `git branch -r` in a source repository
Listings ==
    { <<"o", "/", "r", "\n">>,
      <<"m", "/", "f", " ", "-", ">", " ", "o", "/", "r", "\n">>,
      <<"m", "/", "f", " ", "-", ">", " ", "v", "\n">> }

None == [some |-> FALSE, name |-> <<>>]
Some(b) == [some |-> TRUE, name |-> b]
Branches == {None, Some(<<"m", "a", "i", "n">>)}

PrefixClosure(S) ==
    {<<>>} \cup UNION {{SubSeq(p, 1, k) : k \in 0..Len(p)} : p \in S}

FsOutcomes == {"ok", "error"}

Init ==
    /\ \E M \in SUBSET RunMarkers :
          /\ Cardinality(M) <= MaxRepos
          /\ tree = PrefixClosure(M)
    /\ unreadable \in SUBSET (tree \cap RunUnreadable)
    /\ branch \in Branches
    /\ targetExists \in BOOLEAN
    /\ pc = "find_repos"
    /\ repos = <<>>
    /\ idx = 0
    /\ exclude = {}
    /\ prepare_branch = "unset"
    /\ merge_branch = <<>>
    /\ files = {}
    /\ dirs = {}
    /\ top_level_files = <<>>
    /\ content = <<>>
    /\ log = <<>>
    /\ merged = <<>>
    /\ error = <<>>
    /\ commits = 0
    /\ listing = <<>>
    /\ resolved = [kind |-> "unset", ref |-> <<>>, checkout |-> <<>>]

\* the error of a failed call of the standard library or of glob
IO_ERROR == "io error"

\* what the process ends with when a Result that is an Err is unwrapped
PANIC == "panicked: called Result::unwrap() on an Err value"

\* anyhow's Context: the label is put in front of the chain of the error
with_context(label, e) == <<label>> \o e

\* lib.rs:14-19: the error to_anyhow returns for an outcome that is no
\* success; the standard error text of the command is left out
to_anyhow_error(out) ==
    IF out = "noexec"
    THEN with_context("failed to execute process", <<IO_ERROR>>)
    ELSE <<"failed to run command">>

\* merge.rs:30, 33, 36: the context merge_repositories gives to the error
\* of the function the run is in
merge_repositories_context ==
    CASE pc = "find_repos" -> "failed to find repositories"
      [] pc = "create_joined_repo" -> "failed to create target repository"
      [] OTHER -> "failed to merge repositories"

\* the error of the inner function returned as it is
ReturnedBare(e) == e

\* merge.rs:30-36 and trenza.rs:35-45: the error an inner function returns
\* is given the context of merge_repositories, and main returns that
Returned(e) == with_context(merge_repositories_context, e)

Entry(op, args, out) == [repo |-> idx, op |-> op, args |-> args, out |-> out]

\* `<command>.output().to_anyhow()?`: go on to `next` on success, return
\* the error otherwise
Try(op, args, out, next) ==
    /\ log' = Append(log, Entry(op, args, out))
    /\ pc' = IF to_anyhow(out) THEN next ELSE "failed"
    /\ error' = IF to_anyhow(out) THEN error
                ELSE Returned(to_anyhow_error(out))

\* `<fs call>?`: go on to `next` unless the call returned an error
TryFs(op, args, out, next) ==
    /\ log' = Append(log, Entry(op, args, out))
    /\ pc' = IF out = "ok" THEN next ELSE "failed"
    /\ error' = IF out = "ok" THEN error ELSE Returned(<<IO_ERROR>>)

\* `<fs call>.with_context(|| label)?`
TryFsWithContext(op, args, out, next, label) ==
    /\ log' = Append(log, Entry(op, args, out))
    /\ pc' = IF out = "ok" THEN next ELSE "failed"
    /\ error' = IF out = "ok" THEN error
                ELSE Returned(with_context(label, <<IO_ERROR>>))

\* merge.rs:30-31
FindRepos ==
    /\ pc = "find_repos"
    /\ \E out \in FsOutcomes :
          /\ TryFs("glob", <<>>, out, "create_joined_repo")
          /\ repos' = IF out = "ok" THEN find_repos(tree, unreadable)
                      ELSE repos
          /\ content' = IF out = "ok"
                        THEN [k \in 1..Len(find_repos(tree, unreadable)) |-> {}]
                        ELSE content
    /\ UNCHANGED <<tree, unreadable, commits, branch, targetExists, merged,
                   idx, exclude, prepare_branch, merge_branch, files, dirs,
                   top_level_files, listing, resolved>>

\* a directory made like fs::create_dir_all does, which takes an existing
\* directory for a success
create_dir_all_existing(exists, mk) == TRUE

\* merge.rs:57, fs::create_dir: the outcomes it can have; it fails when
\* the path exists
create_dir(exists, mk) == exists => mk = "error"

\* merge.rs:33, create_joined_repo
CreateJoinedRepo ==
    /\ pc = "create_joined_repo"
    /\ \E mk \in FsOutcomes, out \in Outcomes :
          /\ create_dir(targetExists, mk)
          /\ IF mk = "ok"
             THEN /\ log' = log \o <<Entry("create_dir", <<>>, mk),
                                     Entry("init", <<>>, out)>>
                  /\ pc' = IF to_anyhow(out) THEN "merge_repos" ELSE "failed"
                  /\ error' = IF to_anyhow(out) THEN error
                              ELSE Returned(to_anyhow_error(out))
             ELSE TryFs("create_dir", <<>>, mk, "merge_repos")
    /\ UNCHANGED <<tree, unreadable, commits, branch, targetExists, merged,
                   repos, idx, exclude, prepare_branch, merge_branch, files,
                   dirs, top_level_files, content, listing, resolved>>

\* an exclusion set that starts empty
InitialExcludeNone == {}

\* merge.rs:73
InitialExclude == {MARKER, TMP_TARGET_PATH}

\* the manifest strategy whatever the argument
StrategyManifestOnly(b) == "manifest"

\* merge.rs:75-87: the closure boxed for the `branch` argument
Strategy(b) == IF b.some THEN "requested" ELSE "manifest"

\* merge.rs:73-89: the set is created, the strategy is chosen, the loop
\* is entered
MergeReposStart ==
    /\ pc = "merge_repos"
    /\ exclude' = InitialExclude
    /\ prepare_branch' = Strategy(branch)
    /\ idx' = 1
    /\ pc' = IF Len(repos) = 0 THEN "done" ELSE "prepare_branch"
    /\ UNCHANGED <<tree, unreadable, commits, error, branch, targetExists,
                   merged, repos, merge_branch, files, dirs, top_level_files,
                   content, log, listing, resolved>>

\* merge.rs:90: the repository's path relative to the root
repo_name == repos[idx]

\* merge.rs:93 with prepare_requested_branch
PrepareRequestedBranch ==
    /\ pc = "prepare_branch"
    /\ prepare_branch = "requested"
    /\ \E out \in Outcomes :
          /\ Try("checkout", <<"checkout", branch.name>>, out, "remote_add")
          /\ merge_branch' = IF to_anyhow(out) THEN branch.name ELSE merge_branch
    /\ UNCHANGED <<tree, unreadable, commits, branch, targetExists, merged,
                   repos, idx, exclude, prepare_branch, files, dirs,
                   top_level_files, content, listing, resolved>>

\* a failure of the checkout of the temporary branch ends the run
AfterTagCheckoutPropagated(out) ==
    IF to_anyhow(out) THEN "remote_add" ELSE "failed"

\* merge.rs:242-254: the result of the checkout of the temporary branch is
\* looked at for the warning only, TMP_JOIN_BRANCH is returned either way
AfterTagCheckout(out) == "remote_add"

\* merge.rs:93 with prepare_manifest_branch; listing is remote_branches,
\* the output of `git branch -r`
PrepareManifestBranch ==
    /\ pc = "prepare_branch"
    /\ prepare_branch = "manifest"
    /\ \E out1 \in Outcomes, text \in Listings, out2 \in Outcomes :
          LET d == ManifestDecision(text)
              e1 == Entry("branch -r", <<"branch", "-r">>, out1)
              e2 == Entry(IF d.kind = "tag" THEN "checkout -b" ELSE "checkout",
                          d.checkout, out2)
              warn == Entry("warn", <<>>, "ok")
          IN  IF ~to_anyhow(out1)
              THEN /\ log' = Append(log, e1)
                   /\ pc' = "failed"
                   /\ error' = Returned(to_anyhow_error(out1))
                   /\ UNCHANGED <<merge_branch, listing>>
              ELSE IF d.kind = "none"
              THEN /\ log' = log \o <<e1, Entry("bail", <<>>, "error")>>
                   /\ pc' = "failed"
                   /\ error' = Returned(<<"failed to find manifest branch">>)
                   /\ listing' = text
                   /\ UNCHANGED merge_branch
              ELSE IF d.kind = "branch"
              THEN /\ log' = log \o <<e1, e2>>
                   /\ pc' = IF to_anyhow(out2) THEN "remote_add" ELSE "failed"
                   /\ error' = IF to_anyhow(out2) THEN error
                               ELSE Returned(to_anyhow_error(out2))
                   /\ listing' = text
                   /\ merge_branch' = IF to_anyhow(out2) THEN d.ref
                                      ELSE merge_branch
              ELSE /\ log' = IF to_anyhow(out2) THEN log \o <<e1, e2>>
                             ELSE log \o <<e1, e2, warn>>
                   /\ pc' = AfterTagCheckout(out2)
                   /\ error' = IF pc' = "failed"
                               THEN Returned(to_anyhow_error(out2))
                               ELSE error
                   /\ listing' = text
                   /\ merge_branch' = d.ref
    /\ UNCHANGED <<tree, unreadable, commits, branch, targetExists, merged,
                   repos, idx, exclude, prepare_branch, files, dirs,
                   top_level_files, content, resolved>>

\* the remote registered and the fetch left out
RemoteAddWithoutFetch ==
    /\ pc = "remote_add"
    /\ \E out \in Outcomes :
          /\ repo_name = <<>> => out # "ok"
          /\ Try("remote add", repo_name, out, "merge")
    /\ UNCHANGED <<tree, unreadable, commits, branch, targetExists, merged,
                   repos, idx, exclude, prepare_branch, merge_branch, files,
                   dirs, top_level_files, content, listing, resolved>>

\* merge.rs:96-100; git refuses an empty remote name
RemoteAdd ==
    /\ pc = "remote_add"
    /\ \E out \in Outcomes :
          /\ repo_name = <<>> => out # "ok"
          /\ Try("remote add", repo_name, out, "fetch")
    /\ UNCHANGED <<tree, unreadable, commits, branch, targetExists, merged,
                   repos, idx, exclude, prepare_branch, merge_branch, files,
                   dirs, top_level_files, content, listing, resolved>>

\* merge.rs:102-106
Fetch ==
    /\ pc = "fetch"
    /\ \E out \in Outcomes : Try("fetch", repo_name, out, "merge")
    /\ UNCHANGED <<tree, unreadable, commits, branch, targetExists, merged,
                   repos, idx, exclude, prepare_branch, merge_branch, files,
                   dirs, top_level_files, content, listing, resolved>>

\* two trees cannot be merged when a path of one is a path of the other
\* or lies below a file of the other
Conflicts(fs, c) ==
    \E f \in fs, p \in c : IsPrefix(f.path, p) \/ IsPrefix(p, f.path)

\* merge.rs:108-116: the tree of <repo_name>/<merge_branch> arrives at the
\* top level of the joined repository
Merge ==
    /\ pc = "merge"
    /\ \E out \in Outcomes, c \in Contents :
          /\ Conflicts(files, c) => out # "ok"
          /\ Try("merge", <<repo_name, merge_branch>>, out, "create_tmp")
          /\ IF to_anyhow(out)
             THEN /\ files' = files \cup
                         {[path |-> p, repo |-> idx, orig |-> p] : p \in c}
                  /\ content' = [content EXCEPT ![idx] = c]
             ELSE UNCHANGED <<files, content>>
    /\ UNCHANGED <<tree, unreadable, commits, branch, targetExists, merged,
                   repos, idx, exclude, prepare_branch, merge_branch, dirs,
                   top_level_files, listing, resolved>>

(***************************************************************************)
(* move_repo_contents                                                      *)
(***************************************************************************)
DirExists(p, fs, ds) ==
    \/ p = <<>>
    \/ \E f \in fs : IsProperPrefix(p, f.path)
    \/ \E d \in ds : IsPrefix(p, d)

FileExists(p, fs) == \E f \in fs : f.path = p

\* fs::read_dir(joined_repo_path): the names of the top-level entries
ReadDir(fs, ds) ==
    {f.path[1] : f \in fs} \cup {d[1] : d \in ds} \cup {MARKER}

\* Vec::sort of names
SortNames(S) ==
    LET s == SortPaths(SetToSeq({<<n>> : n \in S}))
    IN  [k \in 1..Len(s) |-> s[k][1]]

\* the listing without any filter
TopLevelFilesUnfiltered(ex, fs, ds) ==
    SortNames(ReadDir(fs, ds) \ {MARKER, TMP_TARGET_PATH})

\* merge.rs:146-159
TopLevelFiles(ex, fs, ds) == SortNames({n \in ReadDir(fs, ds) : n \notin ex})

\* merge.rs:143-144
CreateTmpDir ==
    /\ pc = "create_tmp"
    /\ \E out \in FsOutcomes :
          /\ FileExists(<<TMP_TARGET_PATH>>, files) => out = "error"
          /\ TryFsWithContext("create_dir_all", <<TMP_TARGET_PATH>>, out, "mv_tmp",
                             "failed to create temporary repo target path")
          /\ dirs' = IF out = "ok" /\ ~DirExists(<<TMP_TARGET_PATH>>, files, dirs)
                     THEN dirs \cup {<<TMP_TARGET_PATH>>}
                     ELSE dirs
    /\ UNCHANGED <<tree, unreadable, commits, branch, targetExists, merged,
                   repos, idx, exclude, prepare_branch, merge_branch, files,
                   top_level_files, content, listing, resolved>>

\* the files after `git mv <sources> <dir>/`
MovedInto(fs, sources, dir) ==
    {IF f.path[1] \in sources THEN [f EXCEPT !.path = dir \o @] ELSE f : f \in fs}

\* directories that hold no file
StillEmpty(ds, fs) == {d \in ds : ~\E f \in fs : IsProperPrefix(d, f.path)}

\* merge.rs:146-176: list the top level, `git mv <top_level_files> tmp/`.
\* git refuses a move without a source, and a source that holds no
\* tracked file.
MoveToTmp ==
    /\ pc = "mv_tmp"
    /\ \E rd \in FsOutcomes, out \in Outcomes :
          LET sources == TopLevelFiles(exclude, files, dirs)
              tracked == {f.path[1] : f \in files}
          IN  IF rd = "error"
              THEN /\ log' = Append(log, Entry("read_dir", <<>>, rd))
                   /\ pc' = "failed"
                   /\ error' = <<PANIC>>
                   /\ UNCHANGED <<files, dirs, top_level_files>>
              ELSE /\ (sources = <<>> \/ ~(Range(sources) \subseteq tracked))
                         => out # "ok"
                   /\ Try("mv", sources \o <<TMP_TARGET_PATH>>, out, "commit")
                   /\ top_level_files' = sources
                   /\ IF to_anyhow(out)
                      THEN /\ files' = MovedInto(files, Range(sources),
                                                 <<TMP_TARGET_PATH>>)
                           /\ dirs' = StillEmpty(dirs, files')
                      ELSE UNCHANGED <<files, dirs>>
    /\ UNCHANGED <<tree, unreadable, commits, branch, targetExists, merged,
                   repos, idx, exclude, prepare_branch, merge_branch, content,
                   listing, resolved>>

\* `git commit`: a new commit on top of the history
git_commit(n) == n + 1

\* merge.rs:178-182
CommitMove ==
    /\ pc = "commit"
    /\ \E out \in Outcomes :
          /\ Try("commit", repo_name, out, "create_parent")
          /\ commits' = IF to_anyhow(out) THEN git_commit(commits)
                        ELSE commits
    /\ UNCHANGED <<tree, unreadable, branch, targetExists, merged, repos, idx,
                   exclude, prepare_branch, merge_branch, files, dirs,
                   top_level_files, content, listing, resolved>>

\* merge.rs:187-193: the parent of the final path is created when the
\* name holds a separator
CreateParent ==
    /\ pc = "create_parent"
    /\ IF Len(repo_name) > 1
       THEN \E out \in FsOutcomes :
               LET parent == Parent(repo_name)
               IN  /\ (\E k \in 1..Len(parent) :
                          FileExists(SubSeq(parent, 1, k), files))
                         => out = "error"
                   /\ TryFs("create_dir_all", parent, out, "mv_final")
                   /\ dirs' = IF out = "ok" /\ ~DirExists(parent, files, dirs)
                              THEN dirs \cup {parent}
                              ELSE dirs
       ELSE /\ pc' = "mv_final"
            /\ UNCHANGED <<log, dirs, error>>
    /\ UNCHANGED <<tree, unreadable, commits, branch, targetExists, merged,
                   repos, idx, exclude, prepare_branch, merge_branch, files,
                   top_level_files, content, listing, resolved>>

\* where `git mv <source> <dest>` puts the source: into dest when dest is
\* an existing directory, at dest otherwise
MvTarget(source, dest, fs, ds) ==
    IF DirExists(dest, fs, ds) THEN dest \o source ELSE dest

\* merge.rs:195-199: `git mv tmp <repo_name>`.  git refuses a destination
\* that is a file or whose parent directory is missing.
MoveToFinal ==
    /\ pc = "mv_final"
    /\ \E out \in Outcomes :
          LET to == MvTarget(<<TMP_TARGET_PATH>>, repo_name, files, dirs)
          IN  /\ (\/ FileExists(repo_name, files)
                  \/ ~DirExists(Parent(repo_name), files, dirs)
                  \/ FileExists(to, files) \/ DirExists(to, files, dirs))
                    => out # "ok"
              /\ Try("mv", <<<<TMP_TARGET_PATH>>, repo_name>>, out, "amend")
              /\ IF to_anyhow(out)
                 THEN /\ files' = {IF f.path[1] = TMP_TARGET_PATH
                                   THEN [f EXCEPT !.path = to \o Tail(@)]
                                   ELSE f : f \in files}
                      /\ dirs' = StillEmpty(dirs \ {<<TMP_TARGET_PATH>>}, files')
                 ELSE UNCHANGED <<files, dirs>>
    /\ UNCHANGED <<tree, unreadable, commits, branch, targetExists, merged,
                   repos, idx, exclude, prepare_branch, merge_branch,
                   top_level_files, content, listing, resolved>>

\* a second commit made where the first should be amended
git_commit_instead_of_amend(n) == n + 1

\* `git commit --amend`: the last commit is replaced, none is added
git_commit_amend(n) == n

\* merge.rs:201-205
CommitAmend ==
    /\ pc = "amend"
    /\ \E out \in Outcomes :
          /\ Try("commit --amend", <<>>, out, "exclude_insert")
          /\ commits' = IF to_anyhow(out) THEN git_commit_amend(commits)
                        ELSE commits
    /\ UNCHANGED <<tree, unreadable, branch, targetExists, merged, repos, idx,
                   exclude, prepare_branch, merge_branch, files, dirs,
                   top_level_files, content, listing, resolved>>

\* repo_name.split('/').next().unwrap()
FirstSegment(name) == IF name = <<>> THEN "" ELSE name[1]

\* the set replaced by the new name
ExcludeReplaced(ex, name) == {FirstSegment(name)}

\* the last segment of the name inserted
ExcludeLastSegment(ex, name) == ex \cup {Last(name)}

\* merge.rs:121
ExcludeInserted(ex, name) == ex \cup {FirstSegment(name)}

\* merge.rs:120-127: the repository's first path segment is excluded, the
\* repository is reported as merged and the loop goes to the next one
ExcludeInsert ==
    /\ pc = "exclude_insert"
    /\ exclude' = ExcludeInserted(exclude, repo_name)
    /\ merged' = Append(merged, repo_name)
    /\ log' = <<>>
    /\ merge_branch' = <<>>
    /\ listing' = <<>>
    /\ idx' = idx + 1
    /\ pc' = IF idx = Len(repos) THEN "done" ELSE "prepare_branch"
    /\ UNCHANGED <<tree, unreadable, commits, error, branch, targetExists,
                   repos, prepare_branch, files, dirs, top_level_files,
                   content, resolved>>

Next ==
    \/ FindRepos
    \/ CreateJoinedRepo
    \/ MergeReposStart
    \/ PrepareRequestedBranch
    \/ PrepareManifestBranch
    \/ RemoteAdd
    \/ Fetch
    \/ Merge
    \/ CreateTmpDir
    \/ MoveToTmp
    \/ CommitMove
    \/ CreateParent
    \/ MoveToFinal
    \/ CommitAmend
    \/ ExcludeInsert

Spec == Init /\ [][Next]_vars

(***************************************************************************)
(* find_repos alone, over trees that also hold files, directories without  *)
(* a marker, and a marker directory with an entry named like the marker.   *)
(***************************************************************************)
FindLeaves ==
    { <<MARKER>>, <<"a", MARKER>>, <<"a", "b", MARKER>>, <<"a-b", MARKER>>,
      <<"a", MARKER, MARKER>>, <<"a", "f">>, <<"b", "f">>, <<"g">> }

FindUnreadable == { <<"a">>, <<"a", "b">>, <<"g">> }

InitFind ==
    /\ \E L \in SUBSET FindLeaves : tree = PrefixClosure(L)
    /\ unreadable \in SUBSET (tree \cap FindUnreadable)
    /\ branch = None
    /\ targetExists = FALSE
    /\ pc = "find_repos"
    /\ repos = <<>>
    /\ idx = 0
    /\ exclude = {}
    /\ prepare_branch = "unset"
    /\ merge_branch = <<>>
    /\ files = {}
    /\ dirs = {}
    /\ top_level_files = <<>>
    /\ content = <<>>
    /\ log = <<>>
    /\ merged = <<>>
    /\ error = <<>>
    /\ commits = 0
    /\ listing = <<>>
    /\ resolved = [kind |-> "unset", ref |-> <<>>, checkout |-> <<>>]

NextFind == FindRepos

SpecFind == InitFind /\ [][NextFind]_vars

(***************************************************************************)
(* prepare_manifest_branch alone, over outputs of `git branch -r` built    *)
(* from pieces.                                                            *)
(***************************************************************************)
Pieces ==
    { <<"m", "/">>, <<"f">>, <<" ", "-", ">", " ">>, <<"o", "/">>, <<"r">>,
      <<"\n">>, <<"m", "/", "x", " ", "-", ">", " ", "v", "\n">> }

RECURSIVE Texts(_)
\* the texts built from at most n pieces
Texts(n) ==
    IF n = 0 THEN {<<>>}
    ELSE Texts(n - 1) \cup {t \o q : t \in Texts(n - 1), q \in Pieces}

InitManifest ==
    /\ unreadable = {}
    /\ listing \in Texts(MaxPieces)
    /\ resolved = [kind |-> "unset", ref |-> <<>>, checkout |-> <<>>]
    /\ tree = {<<>>}
    /\ branch = None
    /\ targetExists = FALSE
    /\ pc = "prepare_branch"
    /\ repos = <<>>
    /\ idx = 0
    /\ exclude = {}
    /\ prepare_branch = "manifest"
    /\ merge_branch = <<>>
    /\ files = {}
    /\ dirs = {}
    /\ top_level_files = <<>>
    /\ content = <<>>
    /\ log = <<>>
    /\ merged = <<>>
    /\ error = <<>>
    /\ commits = 0

\* merge.rs:219-256 applied to one output
ResolveManifest ==
    /\ resolved.kind = "unset"
    /\ resolved' = ManifestDecision(listing)
    /\ UNCHANGED <<runVars, listing>>

NextManifest == ResolveManifest

SpecManifest == InitManifest /\ [][NextManifest]_vars

(***************************************************************************)
(* Properties of the run.                                                  *)
(***************************************************************************)
FirstSegments(n) == {FirstSegment(repos[k]) : k \in 1..n}

\* move_repo_contents has returned Ok for repository k
Relocated(k) == k < idx \/ (k = idx /\ pc = "exclude_insert")

\* C1: after a successful run every file a source repository brought in
\* lies below that repository's alias, at <alias>/<its path in the source>,
\* and nowhere else.
C1_EveryEntryUnderItsAlias ==
    pc = "done" =>
        /\ \A k \in 1..Len(repos) : \A p \in content[k] :
              [path |-> repos[k] \o p, repo |-> k, orig |-> p] \in files
        /\ \A f \in files : f.path = repos[f.repo] \o f.orig

\* C2 as stated: each merged repository makes the exclusion set exactly one
\* element larger, the new element being the alias's first segment, and no
\* element is lost.
C2_ExactlyOneNewEntry ==
    [][pc = "exclude_insert" =>
          /\ exclude \subseteq exclude'
          /\ FirstSegment(repo_name) \in exclude'
          /\ Cardinality(exclude') = Cardinality(exclude) + 1]_vars

\* C2 amended: the exclusion set never loses an element; each merged
\* repository leaves its alias's first segment in the set, which makes the
\* set one element larger exactly when the segment was not yet in it and
\* leaves it as it was otherwise; no other step of the loop changes it.
C2_GrowsByFirstSegment ==
    [][/\ pc = "exclude_insert" =>
             /\ exclude \subseteq exclude'
             /\ FirstSegment(repo_name) \in exclude'
             /\ Cardinality(exclude') =
                   IF FirstSegment(repo_name) \in exclude
                   THEN Cardinality(exclude)
                   ELSE Cardinality(exclude) + 1
       /\ pc \notin {"exclude_insert", "merge_repos"} => exclude' = exclude]_vars

\* two merged repositories share their first path segment
C2_Witness ==
    /\ pc = "done"
    /\ Len(repos) >= 2
    /\ FirstSegment(repos[1]) = FirstSegment(repos[2])

\* the loop of merge_repos has just been entered
OrchestrationStarted ==
    idx = 1 /\ pc \in {"prepare_branch", "done"} /\ ~Relocated(1)

\* C3 as stated: the exclusion set is empty when the orchestration starts
\* and holds exactly the aliases' first segments after a successful run.
C3_EmptyThenFirstSegments ==
    /\ OrchestrationStarted => exclude = {}
    /\ pc = "done" => exclude = FirstSegments(Len(repos))

\* C3 amended: the exclusion set holds the metadata name and the staging
\* name when the orchestration starts, and after a successful run exactly
\* these two and the first segments of the merged aliases.
C3_MetadataStagingAndFirstSegments ==
    /\ OrchestrationStarted => exclude = {".git", TMP_TARGET_PATH}
    /\ pc = "done" =>
          exclude = {".git", TMP_TARGET_PATH} \cup FirstSegments(Len(repos))

\* a run over a one-segment and a two-segment alias has succeeded
C3_Witness ==
    /\ pc = "done"
    /\ \E j, k \in 1..Len(repos) : Len(repos[j]) = 1 /\ Len(repos[k]) = 2

\* the exclusion set as it is while repository r is processed
ExcludeWhile(r) ==
    IF r = 0 THEN {} ELSE {".git", TMP_TARGET_PATH} \cup FirstSegments(r - 1)

\* entry k of the log failed and the run stopped there
AbortedAt(k) ==
    /\ k = Len(log)
    /\ pc = "failed"
    /\ idx = log[k].repo
    /\ exclude = ExcludeWhile(log[k].repo)

\* C4 as stated: every failure of a command, the checkouts of both
\* strategies included, ends the run at once: nothing is issued after it,
\* the exclusion set is not updated, the run does not succeed.
C4_EveryFailureAborts ==
    \A k \in 1..Len(log) : log[k].out # "ok" => AbortedAt(k)

\* C4 amended: every failure of a command ends the run at once, except a
\* failure of the manifest strategy's `checkout -b` of the temporary branch,
\* after which the run goes on.
C4_EveryFailureButTagCheckoutAborts ==
    \A k \in 1..Len(log) :
        (log[k].out # "ok" /\ log[k].op # "checkout -b") => AbortedAt(k)

\* the second repository's checkout failed
C4_Witness ==
    /\ pc = "failed"
    /\ Len(log) > 0
    /\ log[Len(log)].repo = 2
    /\ log[Len(log)].op = "checkout"
    /\ log[Len(log)].out = "nonzero"

\* the step of the loop body an operation belongs to
Phase(op) ==
    CASE op \in {"glob", "create_dir", "init"} -> 0
      [] op \in {"branch -r", "checkout", "checkout -b", "warn", "bail"} -> 1
      [] op = "remote add" -> 2
      [] op = "fetch" -> 3
      [] op = "merge" -> 4
      [] op \in {"create_dir_all", "read_dir", "mv", "commit",
                 "commit --amend"} -> 5

\* the operations issued so far for the current repository are in order
OperationsInOrder ==
    /\ \A k \in 1..(Len(log) - 1) :
          LET a == log[k]
              b == log[k + 1]
          IN  IF a.repo = b.repo
              THEN \/ Phase(b.op) = Phase(a.op) + 1
                   \/ Phase(b.op) = Phase(a.op) /\ Phase(a.op) \in {0, 1, 5}
              ELSE a.repo = 0 /\ b.repo = 1 /\ Phase(b.op) = 1
    /\ \A k \in 1..Len(log) :
          LET e == log[k]
          IN  /\ e.repo \in {0, idx}
              /\ e.op \in {"remote add", "fetch"} => e.args = repos[idx]
              /\ e.op = "merge" =>
                    /\ e.args[1] = repos[idx]
                    /\ \E j \in 1..(k - 1) :
                          /\ log[j].repo = idx
                          /\ log[j].op \in {"checkout", "checkout -b"}
                          /\ e.args[2] = IF log[j].op = "checkout"
                                         THEN log[j].args[2]
                                         ELSE log[j].args[3]

\* whatever is issued for a repository is issued after every repository
\* before it in the list was completed and its first segment excluded
OneAfterAnother ==
    (\E k \in 1..Len(log) : log[k].repo = idx) =>
        /\ merged = SubSeq(repos, 1, idx - 1)
        /\ FirstSegments(idx - 1) \subseteq exclude

\* the exclusion set is updated for the current repository after its
\* relocation has ended with the amended commit, and then the loop moves
\* to the next repository of the list
ExcludedAfterRelocation ==
    (exclude' # exclude /\ pc # "merge_repos") =>
        /\ Len(log) > 0
        /\ log[Len(log)].op = "commit --amend" /\ log[Len(log)].out = "ok"
        /\ log[Len(log)].repo = idx
        /\ exclude' = exclude \cup {repos[idx][1]}
        /\ idx' = idx + 1

\* C5: per repository the operations come in the order resolve, remote
\* add <alias>, fetch <alias>, merge <alias>/<resolved ref>, relocate,
\* exclude the first segment; the repositories follow one another in list
\* order, the next one starting only after the exclusion of the one before.
C5_StepsInOrder ==
    /\ [](OperationsInOrder /\ OneAfterAnother)
    /\ [][ExcludedAfterRelocation /\ (idx' # idx => pc \in {"merge_repos", "exclude_insert"})]_vars

\* two repositories have gone through the whole loop body
C5_Witness == pc = "done" /\ Len(repos) = 2 /\ merged = repos

NoSentinel ==
    /\ \A f \in files : TMP_TARGET_PATH \notin Range(f.path)
    /\ \A d \in dirs : TMP_TARGET_PATH \notin Range(d)

\* C6: once a relocation has succeeded, no path of the joined repository
\* has a component equal to the staging directory's name.
C6_NoSentinelAfterRelocation ==
    (\E k \in 1..Len(repos) : Relocated(k))
        /\ pc \in {"exclude_insert", "prepare_branch", "remote_add", "fetch",
                   "merge", "done"}
        => NoSentinel

\* repository k has a one-segment alias and a top-level entry of that name
SelfCollision(k) ==
    /\ Len(repos[k]) = 1
    /\ \E p \in content[k] : p[1] = repos[k][1]

\* C7: a repository with alias X whose tree has a top-level entry X is
\* relocated so that every file of it, those of its entry X included, lies
\* at X/<its path in the source>: the entry X at X/X, every other entry E
\* at X/E.
C7_SelfCollisionRelocated ==
    \A k \in 1..Len(repos) :
        (SelfCollision(k) /\ Relocated(k)) =>
            \A p \in content[k] :
                [path |-> repos[k] \o p, repo |-> k, orig |-> p] \in files

\* the repositories completed so far are the first of the list, in its
\* order, and a merge is issued for the next of the list
MergedInListOrder ==
    /\ merged = SubSeq(repos, 1, Len(merged))
    /\ \A k \in 1..Len(log) :
          log[k].op = "merge" => log[k].args[1] = repos[Len(merged) + 1]

\* C8 as stated: the repositories are in ascending order of their paths
\* taken as strings, and are merged in that order.
C8_SortedByPathString ==
    pc # "find_repos" =>
        /\ \A j, k \in 1..Len(repos) :
              j < k => BytesLess(PathString(repos[j]), PathString(repos[k]))
        /\ MergedInListOrder

\* C8 amended: the repositories are in ascending order of their paths
\* compared component by component (a path precedes every path it is a
\* proper prefix of, so "a/b" precedes "a-b"), and are merged in that order.
C8_SortedByComponents ==
    pc # "find_repos" =>
        /\ \A j, k \in 1..Len(repos) :
              j < k =>
                \E n \in 1..Len(repos[k]) :
                    /\ SubSeq(repos[j], 1, n - 1) = SubSeq(repos[k], 1, n - 1)
                    /\ \/ Len(repos[j]) = n - 1
                       \/ /\ Len(repos[j]) >= n
                          /\ BytesLess(Bytes[repos[j][n]], Bytes[repos[k][n]])
        /\ MergedInListOrder

\* "a/b" and "a-b" were found and both have been merged
C8_Witness ==
    /\ repos = << <<"a", "b">>, <<"a-b">> >>
    /\ merged = repos

\* the scan has returned
Found == pc = "create_joined_repo"

\* C9 as stated: the result holds exactly the directories that directly
\* contain a marker, none of them is a marker path, none occurs twice.
C9_ParentsNeverMarkers ==
    Found =>
        /\ Range(repos) = {d \in tree : (d \o <<MARKER>>) \in tree}
        /\ \A k \in 1..Len(repos) : repos[k] = <<>> \/ Last(repos[k]) # MARKER
        /\ \A j, k \in 1..Len(repos) : repos[j] = repos[k] => j = k

\* C9 amended: the result holds exactly the directories with a marker
\* directly in them that the scan gets to (what lies below a directory that
\* cannot be listed is left out), each once; each is the parent of a marker
\* found, and is a marker path itself only when it is a marker that holds
\* an entry named like the marker.
C9_ExactlyMarkerParents ==
    Found =>
        LET seen == Visible(tree, unreadable)
        IN  /\ Range(repos) = {d \in tree : (d \o <<MARKER>>) \in seen}
            /\ Len(repos) =
                  Cardinality({p \in seen : p # <<>> /\ Last(p) = MARKER})
            /\ \A k \in 1..Len(repos) :
                  (repos[k] # <<>> /\ Last(repos[k]) = MARKER) =>
                      (repos[k] \o <<MARKER>>) \in seen
            /\ \A j, k \in 1..Len(repos) : repos[j] = repos[k] => j = k

\* a tree with markers at three depths and entries that are no markers
C9_Witness ==
    /\ Found
    /\ Len(repos) = 3
    /\ <<>> \in Range(repos)
    /\ <<"a", "b">> \in Range(repos)
    /\ <<"b", "f">> \in tree
    /\ <<"g">> \in unreadable

\* the text has a pointer at position i:  m/, characters other than white
\* space up to j, then " -> "
PointerAt(s, i, j) ==
    /\ HasAt(s, i, <<"m", "/">>)
    /\ j >= i + 2
    /\ \A k \in (i + 2)..(j - 1) : ~IsSpace(s[k])
    /\ HasAt(s, j, <<" ", "-", ">", " ">>)

\* the n characters from position c on are the target of a pointer: none
\* is white space, and white space or the end of the text follows
TargetAt(s, c, n) ==
    /\ c + n - 1 <= Len(s)
    /\ \A k \in c..(c + n - 1) : ~IsSpace(s[k])
    /\ c + n > Len(s) \/ IsSpace(s[c + n])

\* C10: the target ref t of the first pointer of the output decides the
\* result: with a separator in t, the part of t after its last separator,
\* which is checked out; without one, the fixed temporary name, checked out
\* as a new branch from t.
C10_ManifestResolution ==
    resolved.kind # "unset" =>
        LET s == listing
            pointers == {q \in (1..Len(s)) \X (1..Len(s)) : PointerAt(s, q[1], q[2])}
        IN  \A q \in pointers :
                (\A q2 \in pointers : q[1] <= q2[1]) =>
                    \E n \in 0..Len(s) :
                        /\ TargetAt(s, q[2] + 4, n)
                        /\ LET t == SubSeq(s, q[2] + 4, q[2] + 3 + n)
                           IN  IF \E k \in 1..n : t[k] = "/"
                               THEN /\ \E k \in 1..n :
                                          /\ t[k] = "/"
                                          /\ resolved.ref = SubSeq(t, k + 1, n)
                                    /\ \A k \in 1..Len(resolved.ref) :
                                          resolved.ref[k] # "/"
                                    /\ resolved.checkout =
                                          <<"checkout", resolved.ref>>
                               ELSE /\ resolved.ref = TMP_JOIN_BRANCH
                                    /\ resolved.checkout =
                                          <<"checkout", "-b", TMP_JOIN_BRANCH, t>>

\* an output whose first pointer has a target with two separators has been
\* resolved to the part after the last one
C10_Witness ==
    /\ resolved.kind = "branch"
    /\ resolved.ref = <<"r">>
    /\ listing = <<"m", "/", " ", "-", ">", " ", "o", "/", "o", "/", "r">>

\* the listing has no line with a pointer
NoPointer(s) == ~\E i, j \in 1..Len(s) : PointerAt(s, i, j)

\* C11: when the listing of remote branches has no pointer, the manifest
\* strategy fails, the run ends there, and neither remote add nor fetch nor
\* merge is issued for that repository, nor anything for a later one.
C11_NoPointerAborts ==
    \A k \in 1..Len(log) :
        (log[k].op = "branch -r" /\ log[k].out = "ok" /\ NoPointer(listing)) =>
            /\ Len(log) = k + 1
            /\ log[k + 1].op = "bail"
            /\ AbortedAt(k + 1)
            /\ \A j \in 1..Len(log) :
                  /\ log[j].op \notin {"remote add", "fetch", "merge"}
                  /\ log[j].repo <= idx

\* the listing of the second repository had no pointer
C11_Witness ==
    /\ pc = "failed"
    /\ idx = 2
    /\ Len(log) > 0
    /\ log[Len(log)].op = "bail"
    /\ NoPointer(listing)

\* C12: in the tag case a failed `checkout -b` of the temporary branch is
\* followed by a warning, the temporary name is the ref to merge, and the
\* run goes on with remote add, fetch and merge of that repository.
C12_TagCheckoutFailureGoesOn ==
    \A k \in 1..Len(log) :
        (log[k].op = "checkout -b" /\ log[k].out # "ok") =>
            /\ log[k].args[3] = TMP_JOIN_BRANCH
            /\ k < Len(log)
            /\ log[k + 1].op = "warn"
            /\ merge_branch = TMP_JOIN_BRANCH
            /\ IF Len(log) = k + 1
               THEN pc = "remote_add"
               ELSE /\ log[k + 2].op = "remote add"
                    /\ log[k + 2].repo = log[k].repo
            /\ \A j \in (k + 2)..Len(log) :
                  /\ log[j].op = "merge" =>
                        log[j].args = <<repos[idx], TMP_JOIN_BRANCH>>
                  /\ (log[j].op = "remote add" /\ log[j].out = "ok"
                      /\ j < Len(log)) => log[j + 1].op = "fetch"
                  /\ (log[j].op = "fetch" /\ log[j].out = "ok"
                      /\ j < Len(log)) => log[j + 1].op = "merge"
            /\ pc = "failed" => log[Len(log)].out # "ok"

\* the temporary branch was there already and the merge went through
C12_Witness ==
    \E k \in 1..Len(log) :
        /\ log[k].op = "checkout -b"
        /\ log[k].out = "nonzero"
        /\ \E j \in (k + 1)..Len(log) :
              /\ log[j].op = "merge"
              /\ log[j].out = "ok"
              /\ log[j].args[2] = TMP_JOIN_BRANCH

\* the directories for which the scan yields an error
ScanErrors == unreadable \cap Visible(tree, unreadable)

\* C13: when an entry of the scan yields an error the run fails in the
\* discovery, before anything else is done: the destination directory is
\* never created.
C13_ScanErrorAborts ==
    ScanErrors # {} =>
        /\ pc \in {"find_repos", "failed"}
        /\ \A k \in 1..Len(log) : log[k].op = "glob"

\* C14: the target initialization fails when the target path exists and
\* when `git init` fails; the run ends there, before any repository is
\* resolved, registered, fetched, merged or relocated, and a target that was
\* there is not touched (no init is run in it, nothing is put into it).
C14_TargetInitFailureAborts ==
    /\ targetExists =>
          /\ pc \in {"find_repos", "create_joined_repo", "failed"}
          /\ \A k \in 1..Len(log) :
                /\ log[k].op \in {"glob", "create_dir"}
                /\ log[k].op = "create_dir" => log[k].out # "ok"
          /\ files = {} /\ dirs = {}
          /\ idx = 0 /\ prepare_branch = "unset"
    /\ \A k \in 1..Len(log) :
          (log[k].op \in {"create_dir", "init"} /\ log[k].out # "ok") =>
              /\ k = Len(log)
              /\ pc = "failed"
              /\ idx = 0 /\ prepare_branch = "unset"
              /\ files = {} /\ dirs = {}
              /\ \A j \in 1..Len(log) : log[j].repo = 0

\* two repositories were found and the target path was there already
C14_Witness ==
    /\ targetExists
    /\ Len(repos) = 2
    /\ pc = "failed"
    /\ log[Len(log)].op = "create_dir"

\* the resolution of every repository so far was done by the explicit
\* strategy: one checkout of the supplied branch, whose name is the ref
ResolvedAsRequested ==
    /\ prepare_branch = "requested"
    /\ \A k \in 1..Len(log) :
          /\ Phase(log[k].op) = 1 =>
                /\ log[k].op = "checkout"
                /\ log[k].args = <<"checkout", branch.name>>
          /\ log[k].op = "merge" => log[k].args[2] = branch.name
    /\ merge_branch \in {<<>>, branch.name}

\* the resolution of every repository so far was done by the manifest
\* strategy: it starts with the listing of the remote branches
ResolvedByManifest ==
    /\ prepare_branch = "manifest"
    /\ \A k \in 1..Len(log) :
          (Phase(log[k].op) = 1 /\ log[k].op # "branch -r") =>
              /\ k > 1
              /\ Phase(log[k - 1].op) = 1
              /\ log[k - 1].repo = log[k].repo

\* C15: the strategy is chosen once, before anything is issued for the
\* first repository, and never changes; it is the explicit one if and only
\* if a branch was supplied, the manifest one otherwise, and every
\* repository of the run is resolved by it.
C15_OneStrategyPerRun ==
    /\ [](IF idx = 0
          THEN /\ prepare_branch = "unset"
               /\ \A k \in 1..Len(log) : log[k].repo = 0
          ELSE IF branch.some THEN ResolvedAsRequested
                              ELSE ResolvedByManifest)
    /\ [][prepare_branch' # prepare_branch =>
             (prepare_branch = "unset" /\ idx = 0 /\ idx' = 1)]_vars

\* a branch was supplied and two repositories have been resolved and merged
C15_Witness ==
    /\ branch.some
    /\ Len(repos) = 2
    /\ idx = 2
    /\ \E k \in 1..Len(log) : log[k].op = "merge" /\ log[k].out = "ok"

\* the contexts of the three operations of a run
OperationContexts ==
    {"failed to find repositories", "failed to create target repository",
     "failed to merge repositories"}

\* C16 as stated: the error of a failed run carries the context of the
\* operation that failed, and a failure of the relocation carries the
\* context of the merging with a further context, of the joining, above it.
C16_ContextUpToJoining ==
    pc = "failed" =>
        LET last == log[Len(log)]
        IN  /\ last.op = "glob" =>
                  "failed to find repositories" \in Range(error)
            /\ last.op \in {"create_dir", "init"} =>
                  "failed to create target repository" \in Range(error)
            /\ Phase(last.op) = 5 =>
                  \E k \in 2..Len(error) :
                      error[k] = "failed to merge repositories"

\* C16 amended: the error of a failed run has the context of the operation
\* that failed as its outermost label (finding, creating the target,
\* merging, the relocation being part of the merging), with the cause below
\* it and no context of a joining above it; a failure to list the
\* destination during the relocation is a panic without any context.
C16_ContextOfTheOperation ==
    IF pc # "failed"
    THEN error = <<>>
    ELSE LET last == log[Len(log)]
         IN  IF last.op = "read_dir"
             THEN error = <<PANIC>>
             ELSE /\ Len(error) >= 2
                  /\ error[1] =
                        CASE last.op = "glob" -> "failed to find repositories"
                          [] last.op \in {"create_dir", "init"} ->
                                "failed to create target repository"
                          [] OTHER -> "failed to merge repositories"
                  /\ \A k \in 2..Len(error) : error[k] \notin OperationContexts
                  /\ (last.op = "create_dir_all"
                      /\ last.args = <<TMP_TARGET_PATH>>) =>
                        error[2] = "failed to create temporary repo target path"

\* the final move of the relocation of the second repository failed
C16_Witness ==
    /\ pc = "failed"
    /\ idx = 2
    /\ Len(log) > 1
    /\ log[Len(log)].op = "mv"
    /\ \/ log[Len(log) - 1].op = "commit"
       \/ /\ log[Len(log) - 1].op = "create_dir_all"
          /\ log[Len(log) - 1].args # <<TMP_TARGET_PATH>>
    /\ error = <<"failed to merge repositories", "failed to run command">>

\* this step is the move into the staging directory, issued
StagingMove ==
    /\ pc = "mv_tmp"
    /\ Len(log') = Len(log) + 1
    /\ log'[Len(log')].op = "mv"

\* C17: the move into the staging directory takes no top-level entry whose
\* name is in the exclusion set (the metadata, the staging directory, the
\* first segments of the aliases merged before), so no file under such an
\* entry changes its path, and the files of the repositories placed before
\* keep their paths through every step of a later relocation.
C17_PlacedContentStays ==
    [][/\ StagingMove =>
             /\ Range(top_level_files') \cap exclude = {}
             /\ log'[Len(log')].args = top_level_files' \o <<TMP_TARGET_PATH>>
             /\ \A f \in files : f.path[1] \in exclude => f \in files'
       /\ \A f \in files : f.repo < idx => f \in files']_vars

\* the entries of the second repository are in the staging directory and
\* the files of the first are where its relocation put them
C17_Witness ==
    /\ pc = "commit"
    /\ idx = 2
    /\ \E f \in files : f.repo = 1 /\ f.path[1] = repos[1][1]
    /\ \E f \in files : f.repo = 2 /\ f.path[1] = TMP_TARGET_PATH

\* the operations of a relocation of the repository `name`, in their order
RelocationSteps(name) ==
    IF Len(name) > 1
    THEN <<"create_dir_all", "mv", "commit", "create_dir_all", "mv",
           "commit --amend">>
    ELSE <<"create_dir_all", "mv", "commit", "mv", "commit --amend">>

\* C18: a relocation makes the staging directory, moves the top-level
\* entries that are not excluded into it, commits, creates the parent of
\* the alias path when the alias has a separator, moves the staging
\* directory to the alias path and amends the commit, each step after the
\* success of the one before; the parent of the alias path exists when the
\* final move is issued, and a relocation adds one commit to the history.
C18_RelocationSteps ==
    IF idx \in 1..Len(repos)
    THEN LET name == repos[idx]
             steps == RelocationSteps(name)
             reloc == SelectSeq(log, LAMBDA e : Phase(e.op) = 5)
             n == Len(reloc)
         IN  /\ n <= Len(steps)
             /\ \A k \in 1..n :
                   /\ \/ reloc[k].op = steps[k]
                      \/ k = 2 /\ k = n /\ reloc[k].op = "read_dir"
                   /\ k < n => reloc[k].out = "ok"
                   /\ (reloc[k].op = "mv" /\ k = 2) =>
                         reloc[k].args = top_level_files \o <<TMP_TARGET_PATH>>
                   /\ (reloc[k].op = "mv" /\ k > 2) =>
                         reloc[k].args = << <<TMP_TARGET_PATH>>, name >>
                   /\ (reloc[k].op = "create_dir_all" /\ k > 1) =>
                         reloc[k].args = Parent(name)
             /\ pc = "mv_final" => DirExists(Parent(name), files, dirs)
             /\ commits = Len(merged)
                   + (IF \E k \in 1..n : /\ reloc[k].op = "commit"
                                         /\ reloc[k].out = "ok"
                      THEN 1 ELSE 0)
    ELSE commits = Len(merged)

\* the second repository, whose alias has a separator, has been relocated
C18_Witness ==
    /\ pc = "exclude_insert"
    /\ idx = 2
    /\ Len(repos[2]) = 2
    /\ commits = 2
    /\ DirExists(Parent(repos[2]), files, dirs)

\* C19: from the entry of the loop on the exclusion set holds the metadata
\* name and the staging sentinel, whatever else was put into it; the
\* listing of the destination holds both when the move into the staging
\* directory is issued, and neither is among the sources of that move.
C19_MetadataAndSentinelExcluded ==
    /\ [](idx >= 1 => {MARKER, TMP_TARGET_PATH} \subseteq exclude)
    /\ [][StagingMove =>
             LET args == log'[Len(log')].args
                 sources == SubSeq(args, 1, Len(args) - 1)
             IN  /\ {MARKER, TMP_TARGET_PATH} \subseteq ReadDir(files, dirs)
                 /\ MARKER \notin Range(sources)
                 /\ TMP_TARGET_PATH \notin Range(sources)
                 /\ args[Len(args)] = TMP_TARGET_PATH]_vars

\* the move into the staging directory was issued for the second
\* repository, with the first segment of the first in the exclusion set
C19_Witness ==
    /\ idx = 2
    /\ Len(log) > 0
    /\ log[Len(log)].op = "mv"
    /\ log[Len(log)].args = top_level_files \o <<TMP_TARGET_PATH>>
    /\ top_level_files # <<>>
    /\ exclude = {MARKER, TMP_TARGET_PATH, repos[1][1]}

\* C20: the alias of the repository the loop is at is not empty and differs
\* from the alias of every repository before it, also when the root itself
\* holds a marker; so no remote name is registered twice and every final
\* directory lies properly below the destination.
C20_AliasesNonEmptyAndDistinct ==
    idx \in 1..Len(repos) =>
        /\ repo_name # <<>>
        /\ \A j \in 1..(idx - 1) : repos[j] # repo_name
        /\ \A k \in 1..Len(log) :
              log[k].op = "remote add" => log[k].args \notin Range(merged)

====
